---- MODULE Spec2Model ----
(***************************************************************************)
(* A model of the Updater class of Rinstaller.py: the manifest client, the *)
(* diff planner (_checkFilesToUpdate), the permission audit                *)
(* (_checkFilePermissions), the downloader (_downloadFile) and the apply   *)
(* phase of updateInstance, over a small file tree.                        *)
(*                                                                         *)
(* A path "a/y" is kept in split form <<"a", "y">> (str.split("/")), the   *)
(* instance root is <<>>.  File content is a sequence of one-character     *)
(* strings.                                                                *)
(***************************************************************************)
EXTENDS Integers, Sequences, FiniteSets, TLC

\* ------------------------------------------------------------------ bounds
\* Deepest path of the file tree (number of components).
MaxDepth == 2
\* Longest file content, in bytes.
MaxLen == 2
\* Most entries an initial scenario holds, counted over the remote file table,
\* the local record, the symlink list and the read-only nodes.
MaxScenario == 3
\* Most entries of a remote file table, of a symlink list, and most leaves of
\* an initial tree.
MaxFiles == 2
\* Most clock advances in one behaviour.
MaxTicks == 1
\* Most calls of updateInstance in one behaviour.
MaxRuns == 2

\* ------------------------------------------------------- program constants
FileUpdateType_NEW == 1
FileUpdateType_DELETE == 2
FileUpdateType_MODIFY == 3
max_redirections == 10
CacheSeconds == 60

\* ------------------------------------------------------------ paths, bytes
Names == {"a", "y"}
DirNames == {"a"}
Chars == {"a", "y", "\n"}
Whitespace == {"\n"}

Contents == UNION {[1..n -> Chars] : n \in 0..MaxLen}

\* All paths of the tree: directories are named from DirNames.
Nodes == UNION {{d \o <<n>> : d \in [1..k -> DirNames], n \in Names} : k \in 0..(MaxDepth - 1)}
Root == <<>>

Parent(p) == SubSeq(p, 1, Len(p) - 1)
Prefix(p, i) == SubSeq(p, 1, i)
IsProperPrefix(p, q) == Len(p) < Len(q) /\ Prefix(q, Len(p)) = p

NoNode == [kind |-> "none", data |-> <<>>, w |-> FALSE]
FileNode(c) == [kind |-> "file", data |-> c, w |-> TRUE]
DirNode == [kind |-> "dir", data |-> <<>>, w |-> TRUE]

\* ------------------------------------------------------------------ digest
CharCode(c) == IF c = "a" THEN 1 ELSE IF c = "y" THEN 2 ELSE 3

\* hashlib.sha256 over the whole file, read from offset 0: an injective code of
\* the byte sequence (no collisions within the bound).
RECURSIVE _sha256File(_)
_sha256File(data) ==
    IF data = <<>> THEN 0
    ELSE _sha256File(SubSeq(data, 1, Len(data) - 1)) * (Cardinality(Chars) + 1)
         + CharCode(data[Len(data)])

\* --------------------------------------------------------- file system calls
\* os.path.exists
Exists(d, p) == p \in DOMAIN d /\ d[p].kind # "none"
\* os.path.isdir
IsDir(d, p) == p \in DOMAIN d /\ d[p].kind = "dir"
IsFile(d, p) == p \in DOMAIN d /\ d[p].kind = "file"
\* os.access(p, os.W_OK)
Writable(d, p) == Exists(d, p) /\ d[p].w
\* os.listdir(p), as the set of entries
ListDir(d, p) == {q \in DOMAIN d : q # Root /\ Parent(q) = p /\ d[q].kind # "none"}

\* os.remove(p) succeeds on a file whose directory is writable.
CanRemove(d, p) == IsFile(d, p) /\ d[Parent(p)].w
\* os.mkdir(p) succeeds when p is free and its directory exists and is writable.
CanMkdir(d, p) == p \in DOMAIN d /\ ~Exists(d, p) /\ IsDir(d, Parent(p)) /\ d[Parent(p)].w
\* os.rmdir(p) succeeds on an empty directory whose directory is writable.
CanRmdir(d, p) == IsDir(d, p) /\ ListDir(d, p) = {} /\ d[Parent(p)].w
\* open(p, 'wb') truncates a writable file, or creates one in a writable directory.
CanOpenWrite(d, p) ==
    \/ IsFile(d, p) /\ d[p].w
    \/ p \in DOMAIN d /\ ~Exists(d, p) /\ IsDir(d, Parent(p)) /\ d[Parent(p)].w
\* open(p, 'rb') succeeds on a file.
CanOpenRead(d, p) == IsFile(d, p)

Remove(d, p) == [d EXCEPT ![p] = NoNode]
Mkdir(d, p) == [d EXCEPT ![p] = DirNode]
WriteFile(d, p, c) ==
    [d EXCEPT ![p] = IF d[p].kind = "file" THEN [d[p] EXCEPT !.data = c] ELSE FileNode(c)]

\* ------------------------------------------------------------ diff planner
Entry(p, h) == [path |-> p, hash |-> h]
PlanEntry(p, t) == [path |-> p, type |-> t]
Keys(files) == {files[i].path : i \in 1..Len(files)}
\* files[path] of a table kept as the sequence of its items
Lookup(files, p) == (CHOOSE i \in 1..Len(files) : files[i].path = p)
HashOf(files, p) == files[Lookup(files, p)].hash
PlanPaths(plan) == {plan[i].path : i \in 1..Len(plan)}
TypeOf(plan, p) == plan[CHOOSE i \in 1..Len(plan) : plan[i].path = p].type

\* open(path, 'rb') of an existing path that is no readable file raises.
PlanRaises(d, files) ==
    \E i \in 1..Len(files) : Exists(d, files[i].path) /\ ~CanOpenRead(d, files[i].path)

\* The first loop: each remote file is NEW when absent from disk, MODIFY when its
\* digest differs, and left out when its digest is the remote one.
RECURSIVE RemoteEntries(_, _, _)
RemoteEntries(d, files, i) ==
    IF i > Len(files) THEN <<>>
    ELSE LET clientFile == files[i].path
             rest == RemoteEntries(d, files, i + 1)
         IN  IF Exists(d, clientFile)
             THEN IF _sha256File(d[clientFile].data) = files[i].hash
                  THEN rest
                  ELSE <<PlanEntry(clientFile, FileUpdateType_MODIFY)>> \o rest
             ELSE <<PlanEntry(clientFile, FileUpdateType_NEW)>> \o rest

\* A second loop without its test: every recorded file is DELETE.
DeleteEntries_Every(files, localFiles, i) ==
    [k \in 1..(Len(localFiles) - i + 1) |->
        PlanEntry(localFiles[k + i - 1], FileUpdateType_DELETE)]

\* The second loop: each recorded file that the remote table lacks is DELETE.
RECURSIVE DeleteEntries(_, _, _)
DeleteEntries(files, localFiles, i) ==
    IF i > Len(localFiles) THEN <<>>
    ELSE LET rest == DeleteEntries(files, localFiles, i + 1)
         IN  IF localFiles[i] \notin Keys(files)
             THEN <<PlanEntry(localFiles[i], FileUpdateType_DELETE)>> \o rest
             ELSE rest

\* A planner that deletes by a scan of the tree: every file on disk that the
\* remote table lacks is DELETE.
RECURSIVE ScanEntries(_)
ScanEntries(S) ==
    IF S = {} THEN <<>>
    ELSE LET p == CHOOSE q \in S : TRUE
         IN  <<PlanEntry(p, FileUpdateType_DELETE)>> \o ScanEntries(S \ {p})
_checkFilesToUpdate_Scan(d, files, localFiles) ==
    RemoteEntries(d, files, 1) \o ScanEntries({p \in DOMAIN d : IsFile(d, p) /\ p \notin Keys(files)})

\* filesToUpdate, in the insertion order of the dict
_checkFilesToUpdate(d, files, localFiles) ==
    RemoteEntries(d, files, 1) \o DeleteEntries(files, localFiles, 1)

\* -------------------------------------------------------- permission audit
\* The loop over folderStructure of a NEW entry with more than one component:
\* every component is probed under tempPart, and tempPart grows only by the
\* components that exist.
RECURSIVE AuditNewParts(_, _, _, _)
AuditNewParts(d, folderStructure, i, tempPart) ==
    IF i > Len(folderStructure) THEN TRUE
    ELSE LET probe == tempPart \o <<folderStructure[i]>>
         IN  IF Exists(d, probe)
             THEN IF ~Writable(d, probe) THEN FALSE
                  ELSE AuditNewParts(d, folderStructure, i + 1, probe)
             ELSE AuditNewParts(d, folderStructure, i + 1, tempPart)

AuditEntry(d, e) ==
    IF e.type = FileUpdateType_MODIFY THEN Writable(d, e.path)
    ELSE IF e.type = FileUpdateType_NEW
         THEN IF Len(e.path) = 1 THEN Writable(d, Root)
              ELSE AuditNewParts(d, e.path, 1, Root)
         ELSE Writable(d, e.path)

_checkFilePermissions(d, plan) == \A i \in 1..Len(plan) : AuditEntry(d, plan[i])

\* --------------------------------------------------- directories of a file
\* _createSubDirectories: the disk it leaves (its result is not used by the
\* caller); it stops at the first mkdir that fails or component that is a file.
RECURSIVE _createSubDirectories(_, _, _)
_createSubDirectories(d, fileLocation, i) ==
    IF i > Len(fileLocation) - 1 THEN d
    ELSE LET dir == Prefix(fileLocation, i)
         IN  IF ~Exists(d, dir)
             THEN IF CanMkdir(d, dir)
                  THEN _createSubDirectories(Mkdir(d, dir), fileLocation, i + 1)
                  ELSE d
             ELSE IF ~IsDir(d, dir) THEN d
                  ELSE _createSubDirectories(d, fileLocation, i + 1)

\* A pruning that looks at the file's own directory only.
_deleteSubDirectories_ParentOnly(d, fileLocation, i) ==
    IF i < 1 THEN d
    ELSE LET tempDir == Prefix(fileLocation, i)
         IN  IF IsDir(d, tempDir) /\ CanRmdir(d, tempDir) THEN Remove(d, tempDir) ELSE d

\* _deleteSubDirectories: from the file's directory upwards, remove each empty
\* directory; stop at the first one that has an entry or cannot be removed.
RECURSIVE _deleteSubDirectories(_, _, _)
_deleteSubDirectories(d, fileLocation, i) ==
    IF i < 1 THEN d
    ELSE LET tempDir == Prefix(fileLocation, i)
         IN  IF ~IsDir(d, tempDir) THEN d
             ELSE IF ListDir(d, tempDir) # {} THEN d
             ELSE IF CanRmdir(d, tempDir)
                  THEN _deleteSubDirectories(Remove(d, tempDir), fileLocation, i - 1)
                  ELSE d

\* ------------------------------------------------------ manifest documents
None == [some |-> FALSE]
Some(v) == [some |-> TRUE, val |-> v]
\* A JSON value of a document: its type t and, when of the expected type, its value.
Field(t, v) == [t |-> t, v |-> v]

Instances == {"A", "B"}
NoLocation == "None"
LocationOf(inst) == IF inst = "A" THEN "locA" ELSE "locB"
Locations == {LocationOf(i) : i \in Instances}

TransportError == [status |-> "error"]
Ok(body) == [status |-> "ok", body |-> body]

\* repoInfo.json: json is "dict", "list" (valid JSON of another type) or
\* "garbage" (not JSON); instances.v maps an instance id to its entry.
RepoDoc(json, instances, version) == [json |-> json, instances |-> instances, version |-> version]
RepoEntry(hasLocation, location) == [hasLocation |-> hasLocation, location |-> location]
\* instanceInfo.json
InstanceDoc(json, version, rev, dependencies, files, symlinks) ==
    [json |-> json, version |-> version, rev |-> rev, dependencies |-> dependencies,
     files |-> files, symlinks |-> symlinks]

\* ---------------------------------------------------------- manifest client
Result(s, ret) == [s |-> s, ret |-> ret]

\* A repository check that takes an instance the document does not list as one
\* published at its usual location.
_getRepositoryInformation_AnyInstance(s, resp) ==
    IF resp.status = "error" \/ resp.body.json = "garbage" THEN Result(s, "False")
    ELSE LET doc == resp.body
             s1 == [s EXCEPT !.repoInfo = Some(doc)]
             s2 == IF doc.version.t = "missing" THEN s1
                   ELSE [s1 EXCEPT !.repo_version = doc.version]
         IN  IF doc.json # "dict" THEN Result(s1, "False")
             ELSE IF doc.instances.t # "dict" THEN Result(s1, "False")
             ELSE IF s2.repo_version.t # "int" THEN Result(s2, "False")
             ELSE IF s.instance \notin DOMAIN doc.instances.v
                  THEN Result([s2 EXCEPT !.repoInstanceLocation = LocationOf(s.instance)], "True")
             ELSE IF ~doc.instances.v[s.instance].hasLocation THEN Result(s2, "raise")
             ELSE Result([s2 EXCEPT !.repoInstanceLocation =
                                      doc.instances.v[s.instance].location], "True")

\* _getRepositoryInformation on Updater fields s, given the server's response.
\* ret is "True", "False", or "raise" for the exception of line 455.
_getRepositoryInformation(s, resp) ==
    IF resp.status = "error" \/ resp.body.json = "garbage" THEN Result(s, "False")
    ELSE LET doc == resp.body
             s1 == [s EXCEPT !.repoInfo = Some(doc)]
             s2 == IF doc.version.t = "missing" THEN s1
                   ELSE [s1 EXCEPT !.repo_version = doc.version]
         IN  IF doc.json # "dict" THEN Result(s1, "False")
             ELSE IF doc.instances.t # "dict" THEN Result(s1, "False")
             ELSE IF s.instance \notin DOMAIN doc.instances.v THEN Result(s1, "False")
             ELSE IF s2.repo_version.t # "int" THEN Result(s2, "False")
             ELSE IF ~doc.instances.v[s.instance].hasLocation THEN Result(s2, "raise")
             ELSE Result([s2 EXCEPT !.repoInstanceLocation =
                                      doc.instances.v[s.instance].location], "True")

\* The part of _getInstanceInformation after the repository is known.
ParseInstanceInformation(s, resp) ==
    IF resp.status = "error" \/ resp.body.json = "garbage" THEN Result(s, "False")
    ELSE LET doc == resp.body
             s1 == [s EXCEPT !.instanceInfo = Some(doc)]
         IN  IF doc.json # "dict" THEN Result(s1, "False")
             ELSE IF doc.version.t # "float" THEN Result(s1, "False")
             ELSE IF doc.rev.t # "int" THEN Result(s1, "False")
             ELSE IF doc.dependencies # "dict" THEN Result(s1, "False")
             ELSE Result(s1, "True")

NeedsRepository(s) == ~s.repoInfo.some \/ s.repoInstanceLocation = NoLocation

\* _getInstanceInformation: repoResp is used only when the repository
\* information is missing; an exception of _getRepositoryInformation is caught.
_getInstanceInformation(s, repoResp, instResp) ==
    IF NeedsRepository(s)
    THEN LET r == _getRepositoryInformation(s, repoResp)
         IN  IF r.ret # "True" THEN Result(r.s, "False")
             ELSE ParseInstanceInformation(r.s, instResp)
    ELSE ParseInstanceInformation(s, instResp)

\* A manifest check that takes over whatever identity it fetched.
_getNewestVersionInformation_Latest(s, repoResp, instResp, now) ==
    LET r == _getInstanceInformation(s, repoResp, instResp)
    IN  IF r.ret # "True" THEN Result(r.s, "False")
        ELSE LET doc == r.s.instanceInfo.val
             IN  IF doc.files.t # "dict" THEN Result(r.s, "False")
                 ELSE IF doc.symlinks.t \notin {"missing", "list"} THEN Result(r.s, "False")
                 ELSE Result([r.s EXCEPT !.newestVersion = doc.version.v,
                                         !.newestRev = doc.rev.v,
                                         !.newestFiles = Some(doc.files.v),
                                         !.newestSymlinks =
                                             Some(IF doc.symlinks.t = "missing" THEN <<>>
                                                  ELSE doc.symlinks.v),
                                         !.lastChecked = now], "True")

\* _getNewestVersionInformation at time now.
_getNewestVersionInformation(s, repoResp, instResp, now) ==
    LET r == _getInstanceInformation(s, repoResp, instResp)
    IN  IF r.ret # "True" THEN Result(r.s, "False")
        ELSE LET doc == r.s.instanceInfo.val
                 version == doc.version.v
                 rev == doc.rev.v
                 newestFiles == doc.files.v
                 newestSymlinks == IF doc.symlinks.t = "missing" THEN <<>> ELSE doc.symlinks.v
             IN  IF doc.files.t # "dict" THEN Result(r.s, "False")
                 ELSE IF doc.symlinks.t \notin {"missing", "list"} THEN Result(r.s, "False")
                 ELSE IF \/ version > r.s.newestVersion
                         \/ (rev > r.s.newestRev /\ version = r.s.newestVersion)
                         \/ ~r.s.newestFiles.some
                         \/ ~r.s.newestSymlinks.some
                      THEN Result([r.s EXCEPT !.newestVersion = version,
                                              !.newestRev = rev,
                                              !.newestFiles = Some(newestFiles),
                                              !.newestSymlinks = Some(newestSymlinks),
                                              !.lastChecked = now], "True")
                      ELSE Result([r.s EXCEPT !.lastChecked = now], "True")

\* (utcTimestamp - self.lastChecked) > 60
Expired(s, now) == (now - s.lastChecked) > CacheSeconds

\* Updater.__init__ with retrieveInfo=False
NewUpdater(instance, localFiles) ==
    [instance |-> instance,
     newestVersion |-> 0, newestRev |-> 0,
     newestFiles |-> None, newestSymlinks |-> None,
     lastChecked |-> 0,
     repoInfo |-> None, repoInstanceLocation |-> NoLocation, instanceInfo |-> None,
     repo_version |-> Field("int", 1),
     localInstanceInfo |-> localFiles]

\* ------------------------------------------------------------------- state
VARIABLES
    self,                   \* the Updater's fields (manifest state, local record)
    updaterLock,            \* TRUE while the lock is held
    disk,                   \* the target tree: node -> [kind, data, w]
    now,                    \* int(time.time())
    ticks,                  \* clock advances so far
    server,                 \* what the repository may answer: [repo, inst, content]
    pc,                     \* where the calling thread is: "idle", "audit", "download", "dl", "apply"
    ret,                    \* what its last public call did: [op, val]
    filesToUpdate,          \* the plan of updateInstance
    idx,                    \* position of the running loop in filesToUpdate
    downloadedFileHandles,  \* path -> content of its temporary file
    call,                   \* locals of the running _downloadFile call
    hist,                   \* facts of the run recorded for the properties; open is
                            \* the set of temporary files created and not closed
    pc2                     \* where a running setInstance call is: "idle", "retrieve"

vars == <<self, updaterLock, disk, now, ticks, server, pc, ret, filesToUpdate, idx,
          downloadedFileHandles, call, hist, pc2>>

NoCall == [file_location |-> <<>>, file_hash |-> 0, redirect_ctr |-> 0, fileHandle |-> <<>>]
\* How a _downloadFile call ended, after how many hops and requests.
\* body is the response the digest check followed, if any; DownloadReturns adds
\* the digest asked for and the content handed back.
Outcome(why, hops, requests, body) ==
    [why |-> why, hops |-> hops, requests |-> requests, body |-> body,
     expected |-> 0, handed |-> [some |-> FALSE]]
NoOutcome == Outcome("none", 0, 0, [some |-> FALSE])
NoHandles == [p \in {} |-> <<>>]
Returned(op, val) == [op |-> op, val |-> val]

RepoResponses == {TransportError} \cup {Ok(d) : d \in server.repo}
InstResponses(loc) ==
    {TransportError} \cup (IF loc \in DOMAIN server.inst THEN {Ok(d) : d \in server.inst[loc]} ELSE {})
ContentResponses == {TransportError} \cup {Ok(c) : c \in server.content}

\* The responses a refresh of s consumes: the repository document only when it
\* is fetched, the instance document only when the repository step succeeded.
RefreshResponses(s) ==
    UNION {{<<rr, ir>> : ir \in (IF (IF NeedsRepository(s) THEN _getRepositoryInformation(s, rr).ret
                                                       ELSE "True") = "True"
                                 THEN InstResponses(IF NeedsRepository(s)
                                                    THEN _getRepositoryInformation(s, rr).s.repoInstanceLocation
                                                    ELSE s.repoInstanceLocation)
                                 ELSE {TransportError})}
           : rr \in (IF NeedsRepository(s) THEN RepoResponses ELSE {TransportError})}

\* The manifest requests a refresh of s issues: repoInfo.json only when the
\* repository information is missing, instanceInfo.json unless that step failed.
RefreshRequests(s, repoResp) ==
    [repo |-> NeedsRepository(s),
     inst |-> IF NeedsRepository(s) THEN _getRepositoryInformation(s, repoResp).ret = "True"
              ELSE TRUE]
NoRequests == [repo |-> FALSE, inst |-> FALSE]

\* The time of the last successful fetch of each manifest since the instance
\* was set, after a step that issued the requests net.
Fetched(h, net, repoOk, instOk, t) ==
    [h EXCEPT !.fetched = [repo |-> IF net.repo /\ repoOk THEN Some(t) ELSE @.repo,
                           inst |-> IF net.inst /\ instOk THEN Some(t) ELSE @.inst]]
\* The history of a step of getRepositoryInformation, getInstanceInformation or
\* updateInstance at the manifest client: seq marks the step, net is what it
\* requested.
Called(h, net, repoOk, instOk, t) ==
    [Fetched(h, net, repoOk, instOk, t) EXCEPT !.seq = 1 - @, !.net = net]

\* A return that never releases the lock.
LeaveUpdate_KeepsLock(val, release, h, s) ==
    /\ pc' = "idle"
    /\ hist' = [h EXCEPT !.last = IF val = "True"
                                  THEN Some([files |-> s.newestFiles, symlinks |-> s.newestSymlinks])
                                  ELSE None,
                         !.prev = None]
    /\ ret' = Returned("updateInstance", val)
    /\ updaterLock' = TRUE
    /\ idx' = 0
    /\ call' = NoCall
    /\ downloadedFileHandles' = NoHandles

\* ------------------------------------------------------------ updateInstance
\* Leaving updateInstance: the value returned ("raise": an exception left it)
\* and whether the lock was released on that path.
LeaveUpdate(val, release, h, s) ==
    /\ pc' = "idle"
    /\ hist' = [h EXCEPT !.last = IF val = "True"
                                  THEN Some([files |-> s.newestFiles, symlinks |-> s.newestSymlinks])
                                  ELSE None,
                         !.prev = None]
    /\ ret' = Returned("updateInstance", val)
    /\ updaterLock' = ~release
    /\ idx' = 0
    /\ call' = NoCall
    /\ downloadedFileHandles' = NoHandles

\* Position of the next NEW or MODIFY entry at or after i, or 0.
NextDownload(plan, i) ==
    IF \E j \in i..Len(plan) : plan[j].type # FileUpdateType_DELETE
    THEN CHOOSE j \in i..Len(plan) :
            /\ plan[j].type # FileUpdateType_DELETE
            /\ \A k \in i..(j - 1) : plan[k].type = FileUpdateType_DELETE
    ELSE 0

NeedsRefresh(s, t) == Expired(s, t) \/ ~s.newestFiles.some \/ ~s.newestSymlinks.some

\* Acquire the lock, refresh the manifest when the cache is old, build the plan.
UpdateInstance_Check ==
    /\ pc = "idle" /\ ~updaterLock
    /\ hist.runs < MaxRuns
    /\ \E rs \in (IF NeedsRefresh(self, now) THEN RefreshResponses(self)
                  ELSE {<<TransportError, TransportError>>}) :
         LET r == IF NeedsRefresh(self, now)
                  THEN _getNewestVersionInformation(self, rs[1], rs[2], now)
                  ELSE Result(self, "True")
             net == IF NeedsRefresh(self, now) THEN RefreshRequests(self, rs[1]) ELSE NoRequests
             h0 == Called(hist, net, _getRepositoryInformation(self, rs[1]).ret = "True",
                          r.ret = "True", now)
             h == [h0 EXCEPT !.disk0 = disk, !.runs = @ + 1, !.prev = hist.last,
                               !.refresh = IF ~NeedsRefresh(self, now) THEN "cached"
                                           ELSE IF r.ret = "True" THEN "ok" ELSE "failed",
                               !.audited = FALSE, !.requested = FALSE, !.planned = FALSE,
                               !.dl = NoOutcome, !.fail = "none",
                               !.downloaded = {}, !.open = {},
                               !.retry = /\ ret = Returned("updateInstance", "False")
                                         /\ hist.fail \in {"permission", "verify", "chmod"}
                                         /\ disk # hist.disk0]
         IN  /\ self' = r.s
             /\ IF r.ret # "True"
                THEN /\ LeaveUpdate("False", TRUE, h, r.s)
                     /\ filesToUpdate' = <<>>
                ELSE IF PlanRaises(disk, r.s.newestFiles.val)
                THEN /\ LeaveUpdate("raise", FALSE, h, r.s)
                     /\ filesToUpdate' = <<>>
                ELSE LET plan == _checkFilesToUpdate(disk, r.s.newestFiles.val,
                                                     r.s.localInstanceInfo)
                     IN  /\ filesToUpdate' = plan
                         /\ IF plan = <<>>
                            THEN LeaveUpdate("True", TRUE, [h EXCEPT !.planned = TRUE], r.s)
                            ELSE /\ pc' = "audit"
                                 /\ updaterLock' = TRUE
                                 /\ hist' = [h EXCEPT !.planned = TRUE]
                                 /\ UNCHANGED <<ret, idx, call, downloadedFileHandles>>
    /\ UNCHANGED <<disk, now, ticks, server, pc2>>

\* An updateInstance that goes on to the downloads whatever the audit says.
UpdateInstance_Audit_Ignored ==
    /\ pc = "audit"
    /\ hist' = [hist EXCEPT !.audited = _checkFilePermissions(disk, filesToUpdate)]
    /\ idx' = IF NextDownload(filesToUpdate, 1) = 0 THEN 1
              ELSE NextDownload(filesToUpdate, 1)
    /\ pc' = IF NextDownload(filesToUpdate, 1) = 0 THEN "apply" ELSE "download"
    /\ UNCHANGED <<updaterLock, ret, call, downloadedFileHandles>>
    /\ UNCHANGED <<self, disk, now, ticks, server, filesToUpdate, pc2>>

\* The permission audit of the whole plan, then on to the first download.
\* An audit that drops the cached manifest when it finds an entry not writable.
UpdateInstance_Audit_Forgetful ==
    /\ pc = "audit"
    /\ IF _checkFilePermissions(disk, filesToUpdate)
       THEN /\ hist' = [hist EXCEPT !.audited = TRUE]
            /\ idx' = IF NextDownload(filesToUpdate, 1) = 0 THEN 1
                      ELSE NextDownload(filesToUpdate, 1)
            /\ pc' = IF NextDownload(filesToUpdate, 1) = 0 THEN "apply" ELSE "download"
            /\ self' = self
            /\ UNCHANGED <<updaterLock, ret, call, downloadedFileHandles>>
       ELSE /\ LeaveUpdate("False", TRUE, hist, self)
            /\ self' = [self EXCEPT !.newestFiles = None]
    /\ UNCHANGED <<disk, now, ticks, server, filesToUpdate, pc2>>

UpdateInstance_Audit ==
    /\ pc = "audit"
    /\ IF _checkFilePermissions(disk, filesToUpdate)
       THEN /\ hist' = [hist EXCEPT !.audited = TRUE]
            /\ idx' = IF NextDownload(filesToUpdate, 1) = 0 THEN 1
                      ELSE NextDownload(filesToUpdate, 1)
            /\ pc' = IF NextDownload(filesToUpdate, 1) = 0 THEN "apply" ELSE "download"
            /\ UNCHANGED <<updaterLock, ret, call, downloadedFileHandles>>
       ELSE LeaveUpdate("False", TRUE, hist, self)
    /\ UNCHANGED <<self, disk, now, ticks, server, filesToUpdate, pc2>>

\* A download loop that goes on after None, keeping no handle for that entry.
DownloadReturns_GoesOn(handle, why, h) ==
    /\ downloadedFileHandles' =
           IF handle.some
           THEN [p \in DOMAIN downloadedFileHandles \cup {filesToUpdate[idx].path} |->
                    IF p = filesToUpdate[idx].path THEN handle.val
                    ELSE downloadedFileHandles[p]]
           ELSE downloadedFileHandles
    /\ idx' = IF NextDownload(filesToUpdate, idx + 1) = 0 THEN 1
              ELSE NextDownload(filesToUpdate, idx + 1)
    /\ pc' = IF NextDownload(filesToUpdate, idx + 1) = 0 THEN "apply" ELSE "download"
    /\ call' = NoCall
    /\ hist' = [h EXCEPT !.dl = [why EXCEPT !.expected = call.file_hash, !.handed = handle],
                          !.downloaded = IF handle.some THEN @ \cup {filesToUpdate[idx].path}
                                         ELSE @]
    /\ UNCHANGED <<updaterLock, ret>>

\* What updateInstance does with the result of _downloadFile for entry idx:
\* None ends the run, a handle is kept and the loop goes on.
DownloadReturns(handle, why, h) ==
    IF ~handle.some
    THEN LeaveUpdate("False", TRUE,
                     [h EXCEPT !.dl = [why EXCEPT !.expected = call.file_hash],
                               !.open = @ \ DOMAIN downloadedFileHandles,
                               !.pointer = None], self)
    ELSE /\ downloadedFileHandles' =
                [p \in DOMAIN downloadedFileHandles \cup {filesToUpdate[idx].path} |->
                    IF p = filesToUpdate[idx].path THEN handle.val
                    ELSE downloadedFileHandles[p]]
         /\ idx' = IF NextDownload(filesToUpdate, idx + 1) = 0 THEN 1
                   ELSE NextDownload(filesToUpdate, idx + 1)
         /\ pc' = IF NextDownload(filesToUpdate, idx + 1) = 0 THEN "apply" ELSE "download"
         /\ call' = NoCall
         /\ hist' = [h EXCEPT !.dl = [why EXCEPT !.expected = call.file_hash, !.handed = handle],
                               !.downloaded = @ \cup {filesToUpdate[idx].path},
                               !.pointer = None]
         /\ UNCHANGED <<updaterLock, ret>>

\* Calling _downloadFile for entry idx: the temporary file is created (or not).
DownloadFile_Begin ==
    /\ pc = "download"
    /\ IF filesToUpdate[idx].path \notin Keys(self.newestFiles.val)
       THEN LeaveUpdate("raise", FALSE, hist, self)
       ELSE \E created \in BOOLEAN :
              IF created
              THEN /\ pc' = "dl"
                   /\ call' = [file_location |-> filesToUpdate[idx].path,
                               file_hash |-> HashOf(self.newestFiles.val, filesToUpdate[idx].path),
                               redirect_ctr |-> 0,
                               fileHandle |-> <<>>]
                   /\ hist' = [hist EXCEPT !.dl = NoOutcome,
                                           !.open = @ \cup {filesToUpdate[idx].path}]
                   /\ UNCHANGED <<updaterLock, ret, idx, downloadedFileHandles>>
              ELSE DownloadReturns(None, Outcome("tempfile", 0, 0, None), hist)
    /\ UNCHANGED <<self, disk, now, ticks, server, filesToUpdate, pc2>>

\* fileHandle.write(chunk) for the chunks of one response, from offset 0: the
\* bytes replace the first Len(body) bytes of the temporary file and the file is
\* not truncated.
WriteFromStart(fileHandle, body) ==
    body \o SubSeq(fileHandle, Len(body) + 1, Len(fileHandle))

\* fileHandle.readline(): up to and including the first newline.
ReadLine(data) ==
    IF \E i \in 1..Len(data) : data[i] = "\n"
    THEN SubSeq(data, 1, CHOOSE i \in 1..Len(data) :
                            data[i] = "\n" /\ \A j \in 1..(i - 1) : data[j] # "\n")
    ELSE data

\* str.strip()
RECURSIVE Strip(_)
Strip(line) ==
    IF line = <<>> THEN line
    ELSE IF Head(line) \in Whitespace THEN Strip(Tail(line))
    ELSE IF line[Len(line)] \in Whitespace THEN Strip(SubSeq(line, 1, Len(line) - 1))
    ELSE line

\* bytes.decode("ascii"): the characters as one string
RECURSIVE Decode(_)
Decode(line) == IF line = <<>> THEN "" ELSE Head(line) \o Decode(Tail(line))

\* os.path.join(os.path.dirname(file_location), <first line, stripped>)
ResolveSymlink(file_location, fileHandle) ==
    Parent(file_location) \o <<Decode(Strip(ReadLine(fileHandle)))>>

IsSymlink(s, file_location) ==
    \E i \in 1..Len(s.newestSymlinks.val) : s.newestSymlinks.val[i] = file_location

\* A loop that gives up one redirection earlier.
TooManyRedirections_Early(redirect_ctr) == redirect_ctr >= max_redirections

\* A loop that allows one redirection more.
TooManyRedirections_Late(redirect_ctr) == redirect_ctr > max_redirections + 1

\* The check at the head of the loop.
TooManyRedirections(redirect_ctr) == redirect_ctr > max_redirections

\* One pass of the while loop of _downloadFile: the redirection check, one
\* request, the symlink test; after the loop the digest check and the return.
DownloadFile_Loop ==
    /\ pc = "dl"
    /\ IF TooManyRedirections(call.redirect_ctr)
       THEN DownloadReturns(None, Outcome("redirections", call.redirect_ctr, call.redirect_ctr, None), hist)
       ELSE IF self.repoInstanceLocation = NoLocation
       THEN DownloadReturns(None, Outcome("transport", call.redirect_ctr, call.redirect_ctr, None), hist)
       ELSE \E resp \in ContentResponses :
              LET h == [hist EXCEPT !.requested = TRUE]
                  hops == call.redirect_ctr
                  received == WriteFromStart(call.fileHandle, resp.body)
              IN  IF resp.status = "error"
                  THEN DownloadReturns(None, Outcome("transport", hops, hops + 1, None), h)
                  ELSE IF ~IsSymlink(self, call.file_location)
                  THEN IF _sha256File(received) # call.file_hash
                       THEN DownloadReturns(None, Outcome("digest", hops, hops + 1, Some(resp.body)), h)
                       ELSE DownloadReturns(Some(received), Outcome("ok", hops, hops + 1, Some(resp.body)), h)
                  ELSE /\ call' = [call EXCEPT
                                     !.file_location = ResolveSymlink(call.file_location, received),
                                     !.redirect_ctr = @ + 1,
                                     !.fileHandle = received]
                       /\ hist' = [h EXCEPT !.pointer = Some(resp.body)]
                       /\ UNCHANGED <<pc, updaterLock, ret, idx, downloadedFileHandles>>
    /\ UNCHANGED <<self, disk, now, ticks, server, filesToUpdate, pc2>>

\* The bytes a copy may leave in the destination: all of them, or fewer when the
\* copy breaks off.
CopyOutcomes(data) ==
    {data} \cup (IF data = <<>> THEN {} ELSE {SubSeq(data, 1, Len(data) - 1)})

\* Paths whose mode is set after the write (none of them lies in Nodes).
ExecutablePaths == {<<"alertRclient.py">>, <<"alertRserver.py">>, <<"alertRupdate.py">>,
                    <<"graphExport.py">>, <<"manageUsers.py">>}
ConfigPaths == {<<"config", "config.xml.template">>}
\* os.chmod to an owner-writable mode
Chmod(d, p) == IF p \in ExecutablePaths \cup ConfigPaths THEN [d EXCEPT ![p].w = TRUE] ELSE d
\* Whether os.chmod, where it is called, succeeds: it may raise (the file is
\* not the process owner's, for one).
ChmodOutcomes(p) == IF p \in ExecutablePaths \cup ConfigPaths THEN BOOLEAN ELSE {TRUE}

\* An apply phase without the check after the copy.
VerifyWritten_Skipped(d, fileToUpdate, files) == TRUE

\* A check after the copy that only looks whether the file is there.
VerifyWritten_ExistsOnly(d, fileToUpdate, files) == IsFile(d, fileToUpdate)

\* The check after the copy: the file is read back and hashed.
VerifyWritten(d, fileToUpdate, files) ==
    _sha256File(d[fileToUpdate].data) = HashOf(files, fileToUpdate)

\* Whether entry e cannot be applied on disk d for want of a write permission:
\* a file is removed from, and a file or directory is created in, a directory that
\* must be writable; an existing file is overwritten when it is writable.
PermissionDenied(d, e) ==
    IF e.type = FileUpdateType_DELETE
    THEN IsFile(d, e.path) /\ ~d[Parent(e.path)].w
    ELSE \/ IsFile(d, e.path) /\ ~d[e.path].w
         \/ \E i \in 1..Len(e.path) :
              /\ ~Exists(d, Prefix(e.path, i))
              /\ IsDir(d, Prefix(e.path, i - 1))
              /\ ~d[Prefix(e.path, i - 1)].w

\* An apply loop that notes the failure of an entry and goes on with the next.
ApplyFails_GoesOn(val, release, why) ==
    IF idx = Len(filesToUpdate)
    THEN LeaveUpdate(val, release, [hist EXCEPT !.dl = NoOutcome, !.fail = why], self)
    ELSE /\ idx' = idx + 1
         /\ hist' = [hist EXCEPT !.dl = NoOutcome, !.fail = why]
         /\ UNCHANGED <<pc, updaterLock, ret, call, downloadedFileHandles>>

ApplyFails(val, release, why) ==
    LeaveUpdate(val, release, [hist EXCEPT !.dl = NoOutcome, !.fail = why], self)

\* The loop goes on to the next entry, or updateInstance returns True.
ApplyContinues ==
    IF idx = Len(filesToUpdate)
    THEN LeaveUpdate("True", TRUE,
                     [hist EXCEPT !.dl = NoOutcome,
                                  !.open = @ \ DOMAIN downloadedFileHandles], self)
    ELSE /\ idx' = idx + 1
         /\ hist' = [hist EXCEPT !.dl = NoOutcome]
         /\ UNCHANGED <<pc, updaterLock, ret, call, downloadedFileHandles>>

\* One pass of the apply loop, for entry idx of the plan.
UpdateInstance_Apply ==
    /\ pc = "apply"
    /\ LET fileToUpdate == filesToUpdate[idx].path
           type == filesToUpdate[idx].type
           prepared == IF type = FileUpdateType_NEW
                       THEN _createSubDirectories(disk, fileToUpdate, 1)
                       ELSE disk
           why == IF PermissionDenied(disk, filesToUpdate[idx]) THEN "permission" ELSE "other"
       IN  IF type = FileUpdateType_DELETE
           THEN IF CanRemove(disk, fileToUpdate)
                THEN /\ disk' = _deleteSubDirectories(Remove(disk, fileToUpdate), fileToUpdate,
                                                      Len(fileToUpdate) - 1)
                     /\ ApplyContinues
                ELSE /\ disk' = disk
                     /\ ApplyFails("False", TRUE, why)
           ELSE IF ~CanOpenWrite(prepared, fileToUpdate)
                THEN /\ disk' = prepared
                     /\ ApplyFails("False", TRUE, why)
                ELSE IF fileToUpdate \notin DOMAIN downloadedFileHandles
                THEN /\ disk' = WriteFile(prepared, fileToUpdate, <<>>)
                     /\ ApplyFails("False", TRUE, "other")
                ELSE \E written \in CopyOutcomes(downloadedFileHandles[fileToUpdate]),
                        chmodOk \in ChmodOutcomes(fileToUpdate) :
                       LET copied == WriteFile(prepared, fileToUpdate, written)
                       IN  IF fileToUpdate \notin Keys(self.newestFiles.val)
                           THEN /\ disk' = copied
                                /\ ApplyFails("raise", FALSE, "other")
                           ELSE IF ~VerifyWritten(copied, fileToUpdate, self.newestFiles.val)
                           THEN /\ disk' = copied
                                /\ ApplyFails("False", TRUE, "verify")
                           ELSE IF ~chmodOk
                           THEN /\ disk' = copied
                                /\ ApplyFails("False", TRUE, "chmod")
                           ELSE /\ disk' = Chmod(copied, fileToUpdate)
                                /\ ApplyContinues
    /\ UNCHANGED <<self, now, ticks, server, filesToUpdate, pc2>>

\* ------------------------------------------------------ the other operations
\* The object getInstanceInformation returns, kept by a caller that is the
\* installer (hist.install) in its local instance_info.
Kept(h, info) == [h EXCEPT !.instance_info = IF h.install THEN info ELSE @]

\* getInstanceInformation: the whole call, under the lock.
GetInstanceInformation ==
    /\ pc = "idle" /\ ~updaterLock
    /\ IF Expired(self, now) \/ ~self.instanceInfo.some
       THEN \E rs \in RefreshResponses(self) :
              LET r == _getInstanceInformation(self, rs[1], rs[2])
              IN  /\ self' = r.s
                  /\ hist' = Kept(Called(hist, RefreshRequests(self, rs[1]),
                                         _getRepositoryInformation(self, rs[1]).ret = "True",
                                         r.ret = "True", now),
                                  IF r.ret = "True" THEN r.s.instanceInfo ELSE hist.instance_info)
                  /\ ret' = Returned("getInstanceInformation",
                                     IF r.ret = "True" THEN "returned" ELSE "ValueError")
       ELSE /\ self' = self
            /\ hist' = Kept(Called(hist, NoRequests, FALSE, FALSE, now), self.instanceInfo)
            /\ ret' = Returned("getInstanceInformation", "returned")
    /\ UNCHANGED <<updaterLock, disk, now, ticks, server, pc, filesToUpdate, idx,
                   downloadedFileHandles, call, pc2>>

\* getRepositoryInformation: the whole call; the exception of
\* _getRepositoryInformation leaves it with the lock held.
GetRepositoryInformation ==
    /\ pc = "idle" /\ ~updaterLock
    /\ IF Expired(self, now) \/ ~self.repoInfo.some
       THEN \E rr \in RepoResponses :
              LET r == _getRepositoryInformation(self, rr)
              IN  /\ self' = r.s
                  /\ updaterLock' = (r.ret = "raise")
                  /\ hist' = Called(hist, [repo |-> TRUE, inst |-> FALSE],
                                    r.ret = "True", FALSE, now)
                  /\ ret' = Returned("getRepositoryInformation",
                                     IF r.ret = "True" THEN "returned"
                                     ELSE IF r.ret = "False" THEN "ValueError" ELSE "raise")
       ELSE /\ self' = self
            /\ updaterLock' = FALSE
            /\ hist' = Called(hist, NoRequests, FALSE, FALSE, now)
            /\ ret' = Returned("getRepositoryInformation", "returned")
    /\ UNCHANGED <<disk, now, ticks, server, pc, filesToUpdate, idx,
                   downloadedFileHandles, call, pc2>>

\* The assignments setInstance starts with.
ResetInstance(s, instance) ==
    [s EXCEPT !.instance = instance, !.instanceInfo = None, !.lastChecked = 0,
              !.repoInfo = None, !.repoInstanceLocation = NoLocation]

\* Time passes between two calls.
Tick ==
    /\ pc = "idle"
    /\ ticks < MaxTicks
    /\ \E d \in {CacheSeconds, CacheSeconds + 1} : now' = now + d
    /\ ticks' = ticks + 1
    /\ UNCHANGED <<self, updaterLock, disk, server, pc, ret, filesToUpdate, idx,
                   downloadedFileHandles, call, hist, pc2>>

\* ------------------------------------------------------------ initial states
\* Sequences without repetition of at most n elements of S.
RECURSIVE Arrangements(_, _)
Arrangements(S, n) ==
    IF n = 0 THEN {<<>>}
    ELSE Arrangements(S, n - 1) \cup
         {Append(q, x) : q \in {r \in Arrangements(S, n - 1) : Len(r) = n - 1}, x \in S}
DistinctSeqs(S, n) == {q \in Arrangements(S, n) : \A i, j \in 1..Len(q) : i # j => q[i] # q[j]}

\* Contents of the files found on disk and served by the repository in the
\* update scenarios; the digests a manifest lists are theirs.
DiskContents == {<<"a">>}
ServedContents == {<<"a">>, <<"y">>}
ListedDigests == {_sha256File(c) : c \in ServedContents}

\* File tables: items in document order, paths distinct.
FileTables(n) ==
    UNION {{[i \in 1..Len(q) |-> Entry(q[i], h[i])] : h \in [1..Len(q) -> ListedDigests]}
           : q \in DistinctSeqs(Nodes, n)}

\* Trees: the leaves are files or empty directories, no leaf under another.
LeafSets == {F \in SUBSET Nodes :
               /\ Cardinality(F) <= MaxFiles
               /\ \A p, q \in F : ~IsProperPrefix(p, q)}
CanBeDir(p) == p[Len(p)] \in DirNames /\ Len(p) < MaxDepth
LeafKinds(F) == {k \in [F -> {"file", "dir"}] : \A p \in F : k[p] = "dir" => CanBeDir(p)}
TreeOf(F, k, c, readOnly) ==
    [p \in Nodes \cup {Root} |->
        IF p = Root \/ \E q \in F : IsProperPrefix(p, q)
        THEN [DirNode EXCEPT !.w = p \notin readOnly]
        ELSE IF p \in F
        THEN IF k[p] = "dir" THEN [DirNode EXCEPT !.w = p \notin readOnly]
             ELSE [FileNode(c) EXCEPT !.w = p \notin readOnly]
        ELSE NoNode]
Present(F) == F \cup {p \in Nodes \cup {Root} : \E q \in F : IsProperPrefix(p, q)} \cup {Root}

ValidRepoDoc(ids) ==
    RepoDoc("dict",
            Field("dict", [i \in ids |-> RepoEntry(TRUE, LocationOf(i))]),
            Field("missing", 0))
ValidInstanceDoc(version, rev, files, symlinks) ==
    InstanceDoc("dict", Field("float", version), Field("int", rev), "dict",
                Field("dict", files), Field("list", symlinks))

NoHist == [disk0 |-> <<>>, runs |-> 0, refresh |-> "none", audited |-> FALSE,
           requested |-> FALSE, planned |-> FALSE, last |-> None, prev |-> None,
           dl |-> NoOutcome, fail |-> "none", downloaded |-> {},
           seq |-> 0, net |-> NoRequests, fetched |-> [repo |-> None, inst |-> None],
           open |-> {}, retry |-> FALSE,
           install |-> FALSE, instance_info |-> None, stored |-> None,
               pointer |-> None]

InitRun ==
    /\ updaterLock = FALSE
    /\ now = CacheSeconds + 1
    /\ ticks = 0
    /\ pc = "idle"
    /\ ret = Returned("none", "none")
    /\ filesToUpdate = <<>>
    /\ idx = 0
    /\ downloadedFileHandles = NoHandles
    /\ call = NoCall
    /\ pc2 = "idle"

\* An update scenario: one instance with one published manifest, a tree, a
\* local record and read-only nodes, MaxScenario entries in all.
Init ==
    /\ InitRun
    /\ \E files \in FileTables(MaxFiles), F \in LeafSets :
        \E localFiles \in DistinctSeqs(Nodes, MaxScenario - Len(files)) :
         \E symlinks \in DistinctSeqs(Keys(files), MaxScenario - Len(files) - Len(localFiles)) :
          \E readOnly \in {R \in SUBSET Present(F) :
                             Cardinality(R) <= MaxScenario - Len(files) - Len(localFiles)
                                               - Len(symlinks)},
             k \in LeafKinds(F), c \in DiskContents :
            /\ disk = TreeOf(F, k, c, readOnly)
            /\ hist = [NoHist EXCEPT !.disk0 = TreeOf(F, k, c, readOnly)]
            /\ self = NewUpdater("A", localFiles)
            /\ server = [repo |-> {ValidRepoDoc({"A"})},
                         inst |-> [l \in Locations |->
                                     IF l = LocationOf("A")
                                     THEN {ValidInstanceDoc(1, 0, files, symlinks)}
                                     ELSE {}],
                         content |-> ServedContents,
                         ids |-> {"A"}]

Next ==
    \/ UpdateInstance_Check
    \/ UpdateInstance_Audit
    \/ DownloadFile_Begin
    \/ DownloadFile_Loop
    \/ UpdateInstance_Apply

Spec == Init /\ [][Next]_vars

\* ------------------------------------------------- _downloadFile on its own
\* The paths a download may be asked for or be redirected to, in the tree root.
DownloadNames == {<<"a">>, <<"y">>}

\* One call of _downloadFile(path, digest) made by updateInstance for a plan of
\* one NEW entry, for every digest of a content within the bound, every symlink
\* list over DownloadNames, and a repository that may answer any content. The
\* path asked for is a; asking for y is the same call with the two names swapped.
InitDownload ==
    /\ InitRun
    /\ \E content \in Contents, symlinks \in DistinctSeqs(DownloadNames, MaxFiles) :
         LET files == <<Entry(<<"a">>, _sha256File(content))>>
             tree == TreeOf({}, <<>>, <<>>, {})
             doc == ValidInstanceDoc(1, 0, files, symlinks)
             fresh == NewUpdater("A", <<>>)
             r == _getNewestVersionInformation(fresh, Ok(ValidRepoDoc({"A"})), Ok(doc), now)
         IN  /\ disk = tree
             /\ hist = [NoHist EXCEPT !.disk0 = tree]
             /\ self = r.s
             /\ server = [repo |-> {ValidRepoDoc({"A"})},
                          inst |-> [l \in Locations |-> IF l = LocationOf("A") THEN {doc} ELSE {}],
                          content |-> Contents,
                          ids |-> {"A"}]

NextDownload_ ==
    \/ UpdateInstance_Check
    \/ UpdateInstance_Audit
    \/ DownloadFile_Begin
    \/ DownloadFile_Loop

SpecDownload == InitDownload /\ [][NextDownload_]_vars

\* One updateInstance after another on the download scenario, apply phase
\* included. A call that has begun is run to its return: every request returns
\* or times out, so each step of a running updateInstance is taken.
UpdateInstance_Step ==
    \/ UpdateInstance_Audit
    \/ DownloadFile_Begin
    \/ DownloadFile_Loop
    \/ UpdateInstance_Apply

NextTerminates ==
    \/ UpdateInstance_Check
    \/ UpdateInstance_Step

SpecTerminates == InitDownload /\ [][NextTerminates]_vars /\ WF_vars(UpdateInstance_Step)

\* ------------------------------------------------------- setInstance, the client
\* setInstance, called by any thread: it takes no lock, so it runs whatever the
\* thread that makes the other calls is doing. Its assignments are one step, the
\* refresh of retrieveInfo=True (_getNewestVersionInformation) another.
SetInstance ==
    /\ pc2 = "idle"
    /\ \E instance \in server.ids, retrieveInfo \in BOOLEAN :
         /\ self' = ResetInstance(self, instance)
         /\ pc2' = IF retrieveInfo THEN "retrieve" ELSE "idle"
    /\ hist' = [hist EXCEPT !.fetched = [repo |-> None, inst |-> None]]
    /\ UNCHANGED <<updaterLock, disk, now, ticks, server, pc, ret, filesToUpdate, idx,
                   downloadedFileHandles, call>>

SetInstance_RetrieveInfo ==
    /\ pc2 = "retrieve"
    /\ \E rs \in RefreshResponses(self) :
         LET r == _getNewestVersionInformation(self, rs[1], rs[2], now)
         IN  /\ self' = r.s
             /\ hist' = Fetched(hist, RefreshRequests(self, rs[1]),
                                _getRepositoryInformation(self, rs[1]).ret = "True",
                                r.ret = "True", now)
    /\ pc2' = "idle"
    /\ UNCHANGED <<updaterLock, disk, now, ticks, server, pc, ret, filesToUpdate, idx,
                   downloadedFileHandles, call>>

\* Documents a repository with the instances A and B may answer.
RepoWithoutLocation ==
    RepoDoc("dict",
            Field("dict", [i \in Instances |-> RepoEntry(i = "A", LocationOf(i))]),
            Field("int", 1))
RepoWithoutB == ValidRepoDoc({"A"})
RepoOfAnotherType == RepoDoc("list", Field("missing", <<>>), Field("missing", 0))
InstanceWithoutFiles ==
    InstanceDoc("dict", Field("float", 1), Field("int", 0), "dict",
                Field("missing", <<>>), Field("missing", <<>>))

\* A client of a repository with two instances, B newer than A, over an empty
\* tree; the repository answers with any of its documents. Among its other calls
\* the client makes one call of updateInstance.
InitClient ==
    /\ InitRun
    /\ LET tree == TreeOf({}, <<>>, <<>>, {})
           filesA == <<Entry(<<"a">>, _sha256File(<<"y">>))>>
           filesB == <<Entry(<<"y">>, _sha256File(<<"a">>))>>
       IN  /\ disk = tree
           /\ hist = [NoHist EXCEPT !.disk0 = tree, !.runs = MaxRuns - 1]
           /\ self = NewUpdater("A", <<>>)
           /\ server = [repo |-> {ValidRepoDoc(Instances), RepoWithoutLocation, RepoWithoutB},
                        inst |-> [l \in Locations |->
                                    IF l = LocationOf("A")
                                    THEN {ValidInstanceDoc(1, 0, filesA, <<>>)}
                                    ELSE {ValidInstanceDoc(2, 0, filesB, <<>>)}],
                        content |-> {<<"y">>},
                        ids |-> Instances]

NextClient ==
    \/ Next
    \/ GetInstanceInformation
    \/ GetRepositoryInformation
    \/ SetInstance
    \/ SetInstance_RetrieveInfo
    \/ Tick

SpecClient == InitClient /\ [][NextClient]_vars

\* ------------------------------------------------- a failed run and its retry
\* After a run that failed in its apply phase the operator of the machine gives
\* the process write access to everything in the tree.
Repair ==
    /\ pc = "idle" /\ ~updaterLock
    /\ ret = Returned("updateInstance", "False") /\ hist.fail # "none"
    /\ \E p \in DOMAIN disk : Exists(disk, p) /\ ~disk[p].w
    /\ disk' = [p \in DOMAIN disk |-> IF Exists(disk, p) THEN [disk[p] EXCEPT !.w = TRUE]
                                       ELSE disk[p]]
    /\ UNCHANGED <<self, updaterLock, now, ticks, server, pc, ret, filesToUpdate, idx,
                   downloadedFileHandles, call, hist, pc2>>

\* The update scenarios whose manifest lists fewer than MaxFiles files.
InitRetry ==
    /\ Init
    /\ Len(self.localInstanceInfo) + MaxFiles > MaxScenario

NextRetry ==
    \/ Next
    \/ Repair

SpecRetry == InitRetry /\ [][NextRetry]_vars

\* ------------------------------------------------- deletions on their own
\* Trees one level deeper than those of the update scenarios, so that a file has
\* up to two directories between it and the root.
PruneDepth == MaxDepth + 1
PruneNodes == {p \in UNION {[1..n -> Names] : n \in 1..PruneDepth} :
                 \A i \in 1..(Len(p) - 1) : p[i] \in DirNames}
PruneTrees ==
    {t \in [PruneNodes \cup {Root} ->
              {NoNode, FileNode(<<"a">>), DirNode, [DirNode EXCEPT !.w = FALSE]}] :
        /\ t[Root].kind = "dir"
        /\ \A p \in PruneNodes :
              /\ t[p].kind # "none" => t[Parent(p)].kind = "dir"
              /\ t[p].kind = "dir" => p[Len(p)] \in DirNames}

\* updateInstance for a manifest that lists no file, over any such tree and any
\* local record of up to MaxFiles files: a plan of deletions only.
InitPrune ==
    /\ InitRun
    /\ \E tree \in PruneTrees :
        \E localFiles \in DistinctSeqs({p \in PruneNodes : IsFile(tree, p)}, MaxFiles) \ {<<>>} :
            /\ disk = tree
            /\ hist = [NoHist EXCEPT !.disk0 = tree]
            /\ self = NewUpdater("A", localFiles)
            /\ server = [repo |-> {ValidRepoDoc({"A"})},
                         inst |-> [l \in Locations |->
                                     IF l = LocationOf("A")
                                     THEN {ValidInstanceDoc(1, 0, <<>>, <<>>)}
                                     ELSE {}],
                         content |-> {},
                         ids |-> {"A"}]

NextPrune ==
    \/ UpdateInstance_Check
    \/ UpdateInstance_Audit
    \/ UpdateInstance_Apply

SpecPrune == InitPrune /\ [][NextPrune]_vars

\* ------------------------------------------------- an instance with a script
\* A flat tree with one of the files whose mode updateInstance sets.
ApplyNodes == {<<"a">>, <<"y">>, <<"alertRclient.py">>}
ApplyTrees ==
    {t \in [ApplyNodes \cup {Root} ->
              {NoNode, FileNode(<<"a">>), [FileNode(<<"a">>) EXCEPT !.w = FALSE],
               DirNode, [DirNode EXCEPT !.w = FALSE]}] :
        /\ t[Root].kind = "dir"
        /\ \A p \in ApplyNodes : t[p].kind # "dir"}
\* Manifests listing y and the script, in either order, with the digest of the
\* content y.
ApplyTables ==
    {[i \in 1..Len(q) |-> Entry(q[i], _sha256File(<<"y">>))] :
        q \in DistinctSeqs({<<"y">>, <<"alertRclient.py">>}, MaxFiles)}

\* updateInstance over such a tree, with a local record that may list a.
InitApply ==
    /\ InitRun
    /\ \E tree \in ApplyTrees, files \in ApplyTables, localFiles \in {<<>>, <<<<"a">>>>} :
         /\ disk = tree
         /\ hist = [NoHist EXCEPT !.disk0 = tree]
         /\ self = NewUpdater("A", localFiles)
         /\ server = [repo |-> {ValidRepoDoc({"A"})},
                      inst |-> [l \in Locations |->
                                  IF l = LocationOf("A")
                                  THEN {ValidInstanceDoc(1, 0, files, <<>>)}
                                  ELSE {}],
                      content |-> ServedContents,
                      ids |-> {"A"}]

SpecApply == InitApply /\ [][Next]_vars

\* ------------------------------------------------- the manifest client on its own
\* The file tables of the two instances.
FilesOfA == <<Entry(<<"a">>, _sha256File(<<"a">>))>>
FilesOfB == <<Entry(<<"a">>, _sha256File(<<"a">>)), Entry(<<"y">>, _sha256File(<<"a">>))>>

\* What the repository may answer: its manifest with both instances, one
\* that lacks B, one of another type; for A two revisions of version 1, for B
\* version 2, a document without 'files' and one whose 'version' is an int.
InstanceOfAnotherVersionType ==
    InstanceDoc("dict", Field("int", 2), Field("int", 0), "dict",
                Field("dict", FilesOfB), Field("list", <<>>))

InitManifest ==
    /\ InitRun
    /\ LET tree == TreeOf({<<"a">>, <<"y">>}, [p \in {<<"a">>, <<"y">>} |-> "file"], <<"a">>, {})
       IN  /\ disk = tree
           /\ hist = [NoHist EXCEPT !.disk0 = tree]
           /\ self = NewUpdater("A", <<>>)
           /\ server = [repo |-> {ValidRepoDoc(Instances), RepoWithoutB, RepoOfAnotherType},
                        inst |-> [l \in Locations |->
                                    IF l = LocationOf("A")
                                    THEN {ValidInstanceDoc(1, 0, FilesOfA, <<>>),
                                          ValidInstanceDoc(1, 1, FilesOfA, <<<<"a">>>>)}
                                    ELSE {ValidInstanceDoc(2, 0, FilesOfB, <<>>),
                                          InstanceWithoutFiles,
                                          InstanceOfAnotherVersionType}],
                        content |-> {},
                        ids |-> Instances]

NextManifest ==
    \/ GetInstanceInformation
    \/ GetRepositoryInformation
    \/ SetInstance
    \/ SetInstance_RetrieveInfo
    \/ Tick

SpecManifest == InitManifest /\ [][NextManifest]_vars

\* ------------------------------------------------- the install flow
\* The installer: getRepositoryInformation, setInstance(instance, retrieveInfo=
\* False) for an instance the repository lists, getInstanceInformation,
\* updateInstance, and instanceInfo.json written from the local instance_info
\* when updateInstance did not return False. Where the flow stands is read from
\* what the last call returned.
Install_GetRepositoryInformation ==
    /\ ret.op = "none"
    /\ GetRepositoryInformation

Install_SetInstance ==
    /\ ret = Returned("getRepositoryInformation", "returned")
    /\ self.repoInfo.some
    /\ SetInstance
    /\ pc2' = "idle"
    /\ self'.instance \in DOMAIN self.repoInfo.val.instances.v

Install_GetInstanceInformation ==
    /\ ret = Returned("getRepositoryInformation", "returned")
    /\ ~self.repoInfo.some
    /\ GetInstanceInformation

Install_UpdateInstance ==
    /\ ret = Returned("getInstanceInformation", "returned")
    /\ UpdateInstance_Check

Install_Store ==
    /\ pc = "idle"
    /\ ret = Returned("updateInstance", "True")
    /\ ~hist.stored.some
    /\ hist' = [hist EXCEPT !.stored = hist.instance_info]
    /\ UNCHANGED <<self, updaterLock, disk, now, ticks, server, pc, ret, filesToUpdate, idx,
                   downloadedFileHandles, call, pc2>>

\* A target directory, empty or holding a file a, and a repository that
\* publishes two manifests of each instance, one after the other at any moment.
InitInstall ==
    /\ InitRun
    /\ \E F \in {{}, {<<"a">>}} :
       LET tree == TreeOf(F, [p \in F |-> "file"], <<"y">>, {})
       IN  /\ disk = tree
           /\ hist = [NoHist EXCEPT !.disk0 = tree, !.install = TRUE]
           /\ self = NewUpdater("A", <<>>)
           /\ server = [repo |-> {ValidRepoDoc(Instances)},
                        inst |-> [l \in Locations |->
                                    {ValidInstanceDoc(1, 0, FilesOfA, <<>>),
                                     ValidInstanceDoc(2, 0, FilesOfB, <<>>)}],
                        content |-> ServedContents,
                        ids |-> Instances]

NextInstall ==
    \/ Install_GetRepositoryInformation
    \/ Install_SetInstance
    \/ Install_GetInstanceInformation
    \/ Install_UpdateInstance
    \/ UpdateInstance_Audit
    \/ DownloadFile_Begin
    \/ DownloadFile_Loop
    \/ UpdateInstance_Apply
    \/ Install_Store

SpecInstall == InitInstall /\ [][NextInstall]_vars

\* ------------------------------------------------- the constructor
\* URLs: a scheme part of up to MaxScheme characters followed by "://x".
MaxScheme == 6
SchemeChars == {"h", "t", "p", "s", "H"}
Urls == {scheme \o <<":", "/", "/", "x">> :
            scheme \in UNION {[1..n -> SchemeChars] : n \in 0..MaxScheme}}
\* str.lower()
LowerChar(c) == IF c = "H" THEN "h" ELSE c
Lower(url) == [i \in 1..Len(url) |-> LowerChar(url[i])]
\* str.startswith(prefix)
StartsWith(url, prefix) == Len(url) >= Len(prefix) /\ SubSeq(url, 1, Len(prefix)) = prefix
\* url.lower().startswith("https")
UrlAllowed(url) == StartsWith(Lower(url), <<"h", "t", "t", "p", "s">>)
\* The scheme of a URL: what stands before "://", in lower case.
Scheme(url) ==
    Lower(SubSeq(url, 1, (CHOOSE i \in 1..Len(url) :
                             url[i] = ":" /\ \A k \in 1..(i - 1) : url[k] # ":") - 1))
IsHttps(url) == Scheme(url) = <<"h", "t", "t", "p", "s">>

\* Updater(url, "A", targetLocation, None, retrieveInfo): the URL test, the
\* fields, and the refresh of retrieveInfo=True. The arguments are in call. A
\* request to a URL whose scheme is not https is refused by the HTTP library
\* before anything is sent.
Construct ==
    /\ pc = "init"
    /\ IF ~UrlAllowed(call.url)
       THEN /\ self' = None
            /\ ret' = Returned("__init__", "ValueError")
            /\ pc' = "failed"
            /\ hist' = hist
       ELSE LET fresh == [url |-> call.url] @@ NewUpdater("A", <<>>)
            IN  IF ~call.retrieveInfo
                THEN /\ self' = fresh
                     /\ ret' = Returned("__init__", "constructed")
                     /\ pc' = "idle"
                     /\ hist' = hist
                ELSE \E rs \in (IF IsHttps(call.url) THEN RefreshResponses(fresh)
                                ELSE {<<TransportError, TransportError>>}) :
                       LET r == _getNewestVersionInformation(fresh, rs[1], rs[2], now)
                       IN  /\ self' = IF r.ret = "True" THEN r.s ELSE None
                           /\ ret' = Returned("__init__", IF r.ret = "True" THEN "constructed"
                                                          ELSE "ValueError")
                           /\ pc' = IF r.ret = "True" THEN "idle" ELSE "failed"
                           /\ hist' = IF IsHttps(call.url)
                                      THEN Called(hist, RefreshRequests(fresh, rs[1]),
                                                  _getRepositoryInformation(fresh, rs[1]).ret = "True",
                                                  r.ret = "True", now)
                                      ELSE hist
    /\ UNCHANGED <<updaterLock, disk, now, ticks, server, filesToUpdate, idx,
                   downloadedFileHandles, call, pc2>>

\* A constructor call for any URL, with and without retrieveInfo.
InitConstruct ==
    /\ updaterLock = FALSE
    /\ now = CacheSeconds + 1
    /\ ticks = 0
    /\ pc = "init"
    /\ ret = Returned("none", "none")
    /\ filesToUpdate = <<>>
    /\ idx = 0
    /\ downloadedFileHandles = NoHandles
    /\ pc2 = "idle"
    /\ self = None
    /\ \E url \in Urls, retrieveInfo \in BOOLEAN :
         call = [url |-> url, retrieveInfo |-> retrieveInfo]
    /\ LET tree == TreeOf({}, <<>>, <<>>, {})
       IN  /\ disk = tree
           /\ hist = [NoHist EXCEPT !.disk0 = tree]
           /\ server = [repo |-> {ValidRepoDoc({"A"})},
                        inst |-> [l \in Locations |->
                                    IF l = LocationOf("A")
                                    THEN {ValidInstanceDoc(1, 0, FilesOfA, <<>>)}
                                    ELSE {}],
                        content |-> {},
                        ids |-> {"A"}]

SpecConstruct == InitConstruct /\ [][Construct]_vars

\* ==================================================================== claims
Range(q) == {q[i] : i \in 1..Len(q)}
UpdateReturned(val) == pc = "idle" /\ ret = Returned("updateInstance", val)
\* The plan of the running (or last) updateInstance call stands as computed:
\* nothing was applied since.
PlanStands == hist.planned /\ disk = hist.disk0
Downloads(plan) == {plan[i].path : i \in {j \in 1..Len(plan) : plan[j].type # FileUpdateType_DELETE}}

\* C1: the plan classifies every path: remote and absent from disk is NEW (also
\* when the local record lists it), remote and on disk with another digest is
\* MODIFY, remote and on disk with the same digest is left out, recorded but not
\* remote is DELETE; no other path is planned and no path is planned twice.
C1_PlanClassification ==
    PlanStands =>
        LET files == self.newestFiles.val
            recorded == Range(self.localInstanceInfo)
        IN  /\ \A p \in Keys(files) :
                 /\ ~Exists(disk, p) =>
                        p \in PlanPaths(filesToUpdate) /\ TypeOf(filesToUpdate, p) = FileUpdateType_NEW
                 /\ Exists(disk, p) /\ _sha256File(disk[p].data) # HashOf(files, p) =>
                        p \in PlanPaths(filesToUpdate) /\ TypeOf(filesToUpdate, p) = FileUpdateType_MODIFY
                 /\ Exists(disk, p) /\ _sha256File(disk[p].data) = HashOf(files, p) =>
                        p \notin PlanPaths(filesToUpdate)
            /\ \A p \in recorded \ Keys(files) :
                 p \in PlanPaths(filesToUpdate) /\ TypeOf(filesToUpdate, p) = FileUpdateType_DELETE
            /\ PlanPaths(filesToUpdate) \subseteq Keys(files) \cup recorded
            /\ \A i, j \in 1..Len(filesToUpdate) :
                 i # j => filesToUpdate[i].path # filesToUpdate[j].path

\* A plan with a NEW entry that the local record lists, next to a DELETE entry.
C1_Witness ==
    /\ PlanStands /\ pc = "audit"
    /\ \E i, j \in 1..Len(filesToUpdate) :
         /\ filesToUpdate[i].type = FileUpdateType_NEW
         /\ filesToUpdate[i].path \in Range(self.localInstanceInfo)
         /\ filesToUpdate[j].type = FileUpdateType_DELETE

\* C2: when updateInstance has returned True, every path of the newest remote
\* table is a file on disk with the table's digest, and every recorded path that
\* the table lacks is gone from disk.
C2_UpdatedTree ==
    UpdateReturned("True") =>
        /\ \A p \in Keys(self.newestFiles.val) :
             IsFile(disk, p) /\ _sha256File(disk[p].data) = HashOf(self.newestFiles.val, p)
        /\ \A p \in Range(self.localInstanceInfo) \ Keys(self.newestFiles.val) :
             ~Exists(disk, p)

\* A successful run that wrote a file and deleted another.
C2_Witness ==
    /\ UpdateReturned("True") /\ hist.audited
    /\ \E i, j \in 1..Len(filesToUpdate) :
         /\ filesToUpdate[i].type = FileUpdateType_NEW
         /\ filesToUpdate[j].type = FileUpdateType_DELETE
         /\ Exists(hist.disk0, filesToUpdate[j].path)

\* C3: a run that follows a successful run, against the same manifest, plans
\* nothing.
C3_Idempotence ==
    (/\ hist.planned
     /\ hist.prev.some
     /\ hist.prev.val.files = self.newestFiles
     /\ hist.prev.val.symlinks = self.newestSymlinks) => filesToUpdate = <<>>

\* C4: the tree is changed only in a run whose refresh did not fail and whose NEW
\* and MODIFY entries were all downloaded; a run that ends on a failed refresh or
\* a failed download returns False and leaves the tree as it was.
C4_NoApplyBeforeDownloads ==
    /\ disk # hist.disk0 =>
         /\ hist.refresh \in {"ok", "cached"}
         /\ Downloads(filesToUpdate) \subseteq hist.downloaded
    /\ (pc = "idle" /\ ret.op = "updateInstance"
        /\ (hist.refresh = "failed" \/ hist.dl.why \in {"tempfile", "transport", "digest", "redirections"})) =>
         /\ ret.val = "False"
         /\ disk = hist.disk0

\* A run that failed on its second download, after the first had succeeded.
C4_Witness ==
    /\ UpdateReturned("False")
    /\ hist.dl.why = "digest"
    /\ hist.downloaded # {}
    /\ disk = hist.disk0

\* C5: no content is requested and nothing is changed before the audit of the
\* whole plan has passed; a run whose audit fails returns False having done
\* neither.
C5_AuditBeforeDownload ==
    /\ pc \in {"download", "dl", "apply"} => hist.audited
    /\ hist.requested => hist.audited
    /\ disk # hist.disk0 => hist.audited
    /\ (pc = "idle" /\ ret.op = "updateInstance" /\ hist.planned
        /\ filesToUpdate # <<>> /\ ~hist.audited) =>
         /\ ret.val = "False"
         /\ ~hist.requested
         /\ disk = hist.disk0

\* A run ended by the audit, whose plan had something to download.
C5_Witness ==
    /\ UpdateReturned("False") /\ hist.planned /\ ~hist.audited
    /\ Downloads(filesToUpdate) # {}

\* C8: once the audit has passed, no entry of the plan fails in the apply phase
\* for want of a write permission.
C8_AuditSound == hist.audited => hist.fail # "permission"

\* C6: _downloadFile hands back a handle only if the digest of its content is
\* the expected one, it returns None for every response content whose digest
\* differs, and every handle the apply phase holds has the manifest's digest.
C6_DigestIntegrity ==
    /\ hist.dl.handed.some => _sha256File(hist.dl.handed.val) = hist.dl.expected
    /\ (hist.dl.body.some /\ _sha256File(hist.dl.body.val) # hist.dl.expected) =>
         ~hist.dl.handed.some
    /\ pc = "apply" =>
         \A p \in DOMAIN downloadedFileHandles :
            _sha256File(downloadedFileHandles[p]) = HashOf(self.newestFiles.val, p)

\* C7: a download that followed 10 symlink hops ends like any other (a handle,
\* unless the digest is wrong or the transport fails); one that followed an
\* 11th hop ends as too many redirections after 11 requests, without a 12th.
C7_RedirectionBound ==
    /\ call.redirect_ctr <= max_redirections + 1
    /\ hist.dl.why = "redirections" <=> hist.dl.hops > max_redirections
    /\ hist.dl.why = "redirections" =>
         hist.dl.hops = max_redirections + 1 /\ hist.dl.requests = max_redirections + 1
    /\ hist.dl.why \in {"ok", "digest"} => hist.dl.requests = hist.dl.hops + 1
    /\ hist.dl.requests <= max_redirections + 1

\* A download that succeeded after exactly 10 hops.
C7_Witness == hist.dl.why = "ok" /\ hist.dl.hops = max_redirections /\ hist.dl.handed.some

\* C9: callers serialize through the lock: while updateInstance is running no
\* other call is at work on the manifest state, and that state changes between
\* the planning step and the end of the apply phase only by updateInstance itself.
C9_Serialized ==
    [][/\ pc # "idle" => pc2 = "idle"
       /\ (pc # "idle" /\ pc' # "idle") => self' = self]_vars

\* C10: when no call is running, the lock is free.
C10_LockReleased == pc = "idle" => ~updaterLock

\* A manifest fetched successfully less than 60 seconds ago, with no setInstance
\* since.
FreshlyFetched(which) ==
    hist.fetched[which].some /\ now - hist.fetched[which].val < CacheSeconds
\* A step of getRepositoryInformation, getInstanceInformation or updateInstance
\* that may turn to the manifest client.
ManifestCall == hist'.seq # hist.seq

\* C11: a call made less than 60 seconds after the successful fetch of a
\* manifest, with no setInstance in between, issues no request for that manifest.
C11_CacheReused ==
    [][ManifestCall =>
          /\ FreshlyFetched("repo") => ~hist'.net.repo
          /\ FreshlyFetched("inst") => ~hist'.net.inst]_vars

\* The instance manifests of the claims: every required field of the expected
\* shape, 'symlinks' a list when present.
WellFormedInstanceDoc(d) ==
    /\ d.json = "dict"
    /\ d.version.t = "float" /\ d.rev.t = "int" /\ d.dependencies = "dict"
    /\ d.files.t = "dict" /\ d.symlinks.t \in {"missing", "list"}
\* The manifests the repository publishes for an instance.
ManifestsOf(instance) ==
    {d \in server.inst[LocationOf(instance)] : WellFormedInstanceDoc(d)}
SymlinksOf(d) == IF d.symlinks.t = "missing" THEN <<>> ELSE d.symlinks.v

\* C12: once a refresh has succeeded after setInstance (lastChecked is set
\* again), the file table and symlink list in use are those of a manifest of the
\* instance that was set.
C12_SwitchInvalidates ==
    (pc2 = "idle" /\ self.lastChecked > 0) =>
        \E d \in ManifestsOf(self.instance) :
            /\ self.newestFiles = Some(d.files.v)
            /\ self.newestSymlinks = Some(SymlinksOf(d))

\* (v1, r1) is strictly newer than (v2, r2), version first.
Newer(v1, r1, v2, r2) == v1 > v2 \/ (v1 = v2 /\ r1 > r2)
\* What an Updater remembers as the newest manifest.
Remembered(s) == <<s.newestVersion, s.newestRev, s.newestFiles, s.newestSymlinks>>

\* C13: the remembered newest identity never decreases, and what is remembered
\* changes only in a step that fetched a manifest, to that manifest, when its
\* identity is strictly newer or no file table or symlink list was remembered.
C13_NewestMonotonic ==
    [][/\ ~Newer(self.newestVersion, self.newestRev, self'.newestVersion, self'.newestRev)
       /\ Remembered(self') # Remembered(self) =>
            /\ self'.instanceInfo.some
            /\ LET doc == self'.instanceInfo.val
               IN  /\ \/ Newer(doc.version.v, doc.rev.v, self.newestVersion, self.newestRev)
                      \/ ~self.newestFiles.some
                      \/ ~self.newestSymlinks.some
                   /\ Remembered(self') = <<doc.version.v, doc.rev.v, Some(doc.files.v),
                                            Some(SymlinksOf(doc))>>]_vars

\* A successful check that fetched version 1 when version 2 was remembered,
\* and left it remembered.
C13_Witness ==
    /\ self.lastChecked = now /\ self.instanceInfo.some
    /\ WellFormedInstanceDoc(self.instanceInfo.val)
    /\ self.instanceInfo.val.version.v = 1
    /\ self.newestVersion = 2

\* The step is a call of the getter op that ended with val.
GetterCall(op, val) == ManifestCall /\ ret' = Returned(op, val)
GetterFailed(op) == ManifestCall /\ ret'.op = op /\ ret'.val # "returned"
RepositoryFields(s) == <<s.repoInfo, s.repoInstanceLocation, s.repo_version>>
AcceptedRepository(s) ==
    s.repoInfo.some /\ _getRepositoryInformation(s, Ok(s.repoInfo.val)).ret = "True"
AcceptedInstance(s) ==
    s.instanceInfo.some /\ ParseInstanceInformation(s, Ok(s.instanceInfo.val)).ret = "True"

\* C14: a document that fails validation is never accepted, not even partly. A
\* getter call that fetched a repository document and failed on it leaves repoInfo,
\* repoInstanceLocation and repo_version as they were; one that fetched an instance
\* document and failed leaves instanceInfo as it was; and a getter call that
\* succeeds returns a document that passes the validation.
C14_AllOrNothing ==
    [][/\ (GetterFailed("getRepositoryInformation") /\ hist'.net.repo)
            => RepositoryFields(self') = RepositoryFields(self)
       /\ (GetterFailed("getInstanceInformation") /\ hist'.net.repo /\ ~hist'.net.inst)
            => RepositoryFields(self') = RepositoryFields(self)
       /\ (GetterFailed("getInstanceInformation") /\ hist'.net.inst)
            => self'.instanceInfo = self.instanceInfo
       /\ GetterCall("getRepositoryInformation", "returned") => AcceptedRepository(self')
       /\ GetterCall("getInstanceInformation", "returned") => AcceptedInstance(self')]_vars

\* C15: getInstanceInformation returns an instance manifest only if 'version' is
\* a float, 'rev' an int, 'files' a map, 'dependencies' a map and 'symlinks', when
\* present, a list; any other document makes the call fail.
C15_RequiredFields ==
    [][GetterCall("getInstanceInformation", "returned")
         => (self'.instanceInfo.some /\ WellFormedInstanceDoc(self'.instanceInfo.val))]_vars

\* The step asked the server for repoInfo.json: a getter or updateInstance that
\* did, or the refresh of setInstance with no repository information.
RepositoryFetch ==
    \/ ManifestCall /\ hist'.net.repo
    \/ pc2 = "retrieve" /\ pc2' = "idle" /\ NeedsRepository(self)
\* The repository document s holds is an object with 'instances', and the
\* configured instance is not one of its keys.
UnknownInstance(s) ==
    /\ s.repoInfo.some
    /\ s.repoInfo.val.json = "dict" /\ s.repoInfo.val.instances.t = "dict"
    /\ s.instance \notin DOMAIN s.repoInfo.val.instances.v
FetchFailures ==
    {Returned("getRepositoryInformation", "ValueError"),
     Returned("getInstanceInformation", "ValueError"),
     Returned("updateInstance", "False")}

\* C16: a repository fetch that ends with a document whose 'instances' does not
\* list the configured instance fails: the getter raises, the refresh does not
\* succeed (lastChecked is not set), updateInstance returns False; no instance
\* manifest is requested or stored, and repoInstanceLocation is left as it was.
C16_UnknownInstance ==
    [][(RepositoryFetch /\ UnknownInstance(self')) =>
          /\ self'.repoInstanceLocation = self.repoInstanceLocation
          /\ self'.instanceInfo = self.instanceInfo
          /\ self'.lastChecked = self.lastChecked
          /\ ManifestCall => (~hist'.net.inst /\ ret' \in FetchFailures /\ pc' = "idle")]_vars

\* updateInstance for B has returned False after asking for the repository
\* document only, and the document it got lists A alone.
C16_Witness ==
    /\ UpdateReturned("False") /\ hist.refresh = "failed"
    /\ hist.net = [repo |-> TRUE, inst |-> FALSE]
    /\ self.instance = "B" /\ self.repoInfo = Some(RepoWithoutB)
    /\ self.repoInstanceLocation = NoLocation

\* C17: in the apply phase the Delete entries are processed first: when the
\* file of a Delete entry is removed, no New or Modify entry of the plan has been
\* processed yet.
C17_DeletesFirst ==
    [][(/\ pc = "apply"
        /\ filesToUpdate[idx].type = FileUpdateType_DELETE
        /\ disk'[filesToUpdate[idx].path] # disk[filesToUpdate[idx].path])
          => \A j \in 1..(idx - 1) : filesToUpdate[j].type = FileUpdateType_DELETE]_vars

\* The maximal chain of empty ancestors of fileLocation in d, the file itself
\* gone: the directories above it, the root excluded, that hold nothing but the
\* next directory of the chain.
EmptyAncestors(d, fileLocation) ==
    {Prefix(fileLocation, i) : i \in
        {i \in 1..(Len(fileLocation) - 1) :
            \A k \in i..(Len(fileLocation) - 1) :
                ListDir(d, Prefix(fileLocation, k)) \subseteq {Prefix(fileLocation, k + 1)}}}

RemovableAncestors(d, fileLocation) ==
    {Prefix(fileLocation, i) : i \in
        {i \in 1..(Len(fileLocation) - 1) :
            \A k \in i..(Len(fileLocation) - 1) :
                /\ ListDir(d, Prefix(fileLocation, k)) \subseteq {Prefix(fileLocation, k + 1)}
                /\ d[Prefix(fileLocation, k - 1)].w}}

CopiesEntry ==
    /\ pc = "apply"
    /\ filesToUpdate[idx].type # FileUpdateType_DELETE
    /\ filesToUpdate[idx].path \in DOMAIN downloadedFileHandles
    /\ filesToUpdate[idx].path \in Keys(self.newestFiles.val)
    /\ CanOpenWrite(IF filesToUpdate[idx].type = FileUpdateType_NEW
                    THEN _createSubDirectories(disk, filesToUpdate[idx].path, 1)
                    ELSE disk, filesToUpdate[idx].path)

\* C19: when the file a New or Modify entry was copied to does not hash to the
\* manifest digest, that step ends updateInstance with False (the lock released):
\* no later plan entry is processed.
C19_PostWriteHash ==
    [][(/\ CopiesEntry
        /\ _sha256File(disk'[filesToUpdate[idx].path].data)
             # HashOf(self.newestFiles.val, filesToUpdate[idx].path))
          => /\ pc' = "idle" /\ ~updaterLock'
             /\ ret' = Returned("updateInstance", "False")]_vars

\* updateInstance has returned False with the first entry of its plan written
\* short of the manifest digest and the entry after it untouched.
C19_Witness ==
    /\ UpdateReturned("False") /\ hist.audited /\ Len(filesToUpdate) > 1
    /\ filesToUpdate[1].type # FileUpdateType_DELETE
    /\ filesToUpdate[1].path \in hist.downloaded
    /\ IsFile(disk, filesToUpdate[1].path)
    /\ disk[filesToUpdate[1].path] # hist.disk0[filesToUpdate[1].path]
    /\ _sha256File(disk[filesToUpdate[1].path].data)
         # HashOf(self.newestFiles.val, filesToUpdate[1].path)
    /\ disk[filesToUpdate[2].path] = hist.disk0[filesToUpdate[2].path]

\* The apply step ends updateInstance at entry idx without success.
ApplyFailure == pc = "apply" /\ pc' = "idle" /\ ret'.val # "True"
\* Entry e of the plan is in its new state on d: written with the manifest
\* digest, or gone.
Applied(d, e, files) ==
    IF e.type = FileUpdateType_DELETE THEN ~Exists(d, e.path)
    ELSE IsFile(d, e.path) /\ _sha256File(d[e.path].data) = HashOf(files, e.path)

\* Entry j of the plan has not been processed when the loop is at entry i: its
\* path is on d as it was when the run began (or it names a directory that holds
\* an entry processed so far, which that entry's directories account for).
Untouched(d, j, i) ==
    \/ d[filesToUpdate[j].path] = hist.disk0[filesToUpdate[j].path]
    \/ \E k \in 1..i : IsProperPrefix(filesToUpdate[j].path, filesToUpdate[k].path)

\* C20: when the apply phase fails at an entry, whether at the removal, the
\* copy, the hash after the write or the chmod, updateInstance returns False with
\* the lock released, every entry after the failing one is as it was when the run
\* began, and every entry before it is in its new state.
C20_NoRollback ==
    [][ApplyFailure =>
          /\ ret' = Returned("updateInstance", "False") /\ ~updaterLock'
          /\ \A j \in (idx + 1)..Len(filesToUpdate) : Untouched(disk', j, idx)
          /\ \A j \in 1..(idx - 1) :
                Applied(disk', filesToUpdate[j], self.newestFiles.val)]_vars

\* updateInstance has returned False at the chmod of the script, the second of
\* three entries: y is written, the script is written, a is still there.
C20_Witness ==
    /\ UpdateReturned("False") /\ hist.fail = "chmod"
    /\ filesToUpdate = <<PlanEntry(<<"y">>, FileUpdateType_NEW),
                         PlanEntry(<<"alertRclient.py">>, FileUpdateType_MODIFY),
                         PlanEntry(<<"a">>, FileUpdateType_DELETE)>>
    /\ Applied(disk, filesToUpdate[1], self.newestFiles.val)
    /\ ~Exists(hist.disk0, <<"y">>)
    /\ disk[<<"alertRclient.py">>].data = <<"y">>
    /\ IsFile(disk, <<"a">>) /\ disk[<<"a">>] = hist.disk0[<<"a">>]

\* C21: when updateInstance has returned, every temporary file created during
\* that run has been closed.
C21_BuffersClosed == (pc = "idle" /\ ret.op = "updateInstance") => hist.open = {}

\* Nothing stands in the way of the running (or last) updateInstance call: the
\* manifest was obtained, every download succeeded, every node of the tree is
\* writable, and no removal, copy or chmod broke off.
NothingInTheWay ==
    /\ hist.refresh \in {"ok", "cached"}
    /\ hist.dl.why \in {"none", "ok"}
    /\ hist.fail = "none" /\ ret.val # "raise"
    /\ \A p \in DOMAIN disk : Exists(disk, p) => disk[p].w

\* C22: a call of updateInstance that follows a run which failed in its apply
\* phase (hist.retry: for want of a permission or on a broken copy or chmod, with
\* part of the plan applied), against the same manifest and with nothing in its
\* way any more, returns
\* True with every file of the manifest on disk: what the failed run had applied
\* does not make the retry fail.
C22_RetryConverges ==
    (/\ pc = "idle" /\ ret.op = "updateInstance"
     /\ hist.retry
     /\ NothingInTheWay)
       => /\ ret.val = "True"
          /\ \A p \in Keys(self.newestFiles.val) :
                IsFile(disk, p) /\ _sha256File(disk[p].data) = HashOf(self.newestFiles.val, p)

\* C23: the instanceInfo.json the installer has written is the instance manifest
\* the Updater holds after the updateInstance call that returned True, the one
\* whose file table that call applied; nothing is written otherwise.
C23_StoredManifest ==
    hist.stored.some =>
        /\ ret = Returned("updateInstance", "True")
        /\ hist.stored = self.instanceInfo
        /\ hist.stored.val.files.v = self.newestFiles.val

\* The files in the tree when the run began that neither the remote table nor
\* the local record names.
StrayFiles ==
    {p \in DOMAIN disk :
        /\ IsFile(hist.disk0, p)
        /\ self.newestFiles.some => p \notin Keys(self.newestFiles.val)
        /\ p \notin Range(self.localInstanceInfo)}

\* C24: at every point of a run of updateInstance and after it, whether it
\* succeeds or fails, every file that neither the remote table nor the local
\* record names is as it was when the run began; with an empty local record
\* every file of the tree is still a file.
C24_StrayFilesKept ==
    /\ \A p \in StrayFiles : disk[p] = hist.disk0[p]
    /\ self.localInstanceInfo = <<>> =>
          \A p \in DOMAIN disk : IsFile(hist.disk0, p) => IsFile(disk, p)

\* updateInstance has returned True after writing a file and deleting a recorded
\* one, and a file it was never told about is still there.
C24_Witness ==
    /\ UpdateReturned("True") /\ StrayFiles # {}
    /\ \E i, j \in 1..Len(filesToUpdate) :
         /\ filesToUpdate[i].type = FileUpdateType_NEW
         /\ IsFile(disk, filesToUpdate[i].path)
         /\ filesToUpdate[j].type = FileUpdateType_DELETE
         /\ IsFile(hist.disk0, filesToUpdate[j].path)
         /\ ~Exists(disk, filesToUpdate[j].path)

\* C25: a constructor call with a URL whose scheme is not https has failed with
\* an error once it is over, and no manifest request was made.
C25_HttpsOnly ==
    (pc # "init" /\ ~IsHttps(call.url)) =>
        /\ ret = Returned("__init__", "ValueError")
        /\ hist.net = NoRequests
        /\ hist.fetched = [repo |-> None, inst |-> None]

\* C26: the step that runs _checkFilePermissions changes no file or directory
\* and no field of the Updater, and sends no request, whether the audit passes
\* or fails.
C26_PureAudit ==
    [][pc = "audit" =>
          /\ disk' = disk
          /\ self' = self
          /\ filesToUpdate' = filesToUpdate
          /\ hist'.seq = hist.seq /\ hist'.net = hist.net
          /\ hist'.requested = hist.requested
          /\ hist'.fetched = hist.fetched]_vars

\* A run whose audit of a plan with a DELETE entry failed.
C26_Witness ==
    /\ UpdateReturned("False") /\ hist.planned /\ ~hist.audited
    /\ hist.refresh \in {"ok", "cached"}
    /\ \E i \in 1..Len(filesToUpdate) : filesToUpdate[i].type = FileUpdateType_DELETE

\* The ancestor directories of a path, the instance root included.
Ancestors(path) == {Prefix(path, i) : i \in 0..(Len(path) - 1)}

\* C27: the audit of a NEW entry fails exactly when an ancestor of its target
\* that exists, the instance root included, is not writable.
C27_NewEntryAudit ==
    pc = "audit" =>
        \A i \in 1..Len(filesToUpdate) :
            filesToUpdate[i].type = FileUpdateType_NEW =>
                (AuditEntry(disk, filesToUpdate[i]) <=>
                    \A anc \in Ancestors(filesToUpdate[i].path) :
                        Exists(disk, anc) => Writable(disk, anc))

\* C28: after one or more symlink hops, the bytes whose digest is compared and
\* the bytes handed to the apply phase are the bytes of the final response and
\* nothing else.
C28_FinalBytesOnly ==
    (hist.dl.hops >= 1 /\ hist.dl.body.some) =>
        /\ hist.dl.why = "ok" => hist.dl.handed = hist.dl.body
        /\ hist.dl.why = "ok" <=> _sha256File(hist.dl.body.val) = hist.dl.expected

\* C29: a pass of the loop of _downloadFile goes on to another fetch only if
\* the path just fetched is in the symlink list, and then the next path is the
\* directory of that path joined with the first line of the content just
\* downloaded; a digest is compared only for a path that is not in the list,
\* and a call that ends on a listed path ends without a digest check.
C29_SymlinkLoop ==
    [][pc = "dl" =>
          /\ pc' = "dl" =>
                /\ IsSymlink(self, call.file_location)
                /\ call'.redirect_ctr = call.redirect_ctr + 1
                /\ call'.file_location =
                       Parent(call.file_location)
                          \o <<Decode(Strip(ReadLine(hist'.pointer.val)))>>
          /\ (pc' # "dl" /\ hist'.dl.why \in {"ok", "digest"}) =>
                ~IsSymlink(self, call.file_location)
          /\ (pc' # "dl" /\ IsSymlink(self, call.file_location)) =>
                hist'.dl.why \in {"redirections", "transport"}]_vars

\* C30: a _downloadFile call issues at most max_redirections + 1 requests and
\* then returns, whatever the symlink list and the answers, and an
\* updateInstance that has begun returns.
C30_Terminates ==
    /\ [](/\ pc = "dl" => call.redirect_ctr <= max_redirections + 1
          /\ hist.dl.requests <= max_redirections + 1)
    /\ (pc = "dl") ~> (pc # "dl")
    /\ (pc # "idle") ~> (pc = "idle" /\ ret.op = "updateInstance")

\* A call ended by the redirection limit where both names are symlink markers.
C30_Witness ==
    /\ pc = "idle" /\ ret = Returned("updateInstance", "False")
    /\ hist.dl.why = "redirections" /\ hist.dl.requests = max_redirections + 1
    /\ Len(self.newestSymlinks.val) = 2

\* C31: an updateInstance whose plan is empty returns True, has requested no
\* file content, has left the target tree as it was and has released the lock.
C31_EmptyPlan ==
    (pc = "idle" /\ ret.op = "updateInstance" /\ hist.planned /\ filesToUpdate = <<>>) =>
        /\ ret.val = "True"
        /\ ~hist.requested
        /\ hist.downloaded = {} /\ hist.open = {}
        /\ disk = hist.disk0
        /\ ~updaterLock

\* An empty plan for a manifest that lists a file the tree already holds.
C31_Witness ==
    /\ pc = "idle" /\ ret = Returned("updateInstance", "True")
    /\ hist.planned /\ filesToUpdate = <<>>
    /\ \E p \in Keys(self.newestFiles.val) :
          IsFile(disk, p) /\ _sha256File(disk[p].data) = HashOf(self.newestFiles.val, p)
====
